---- MODULE Spec2Model ----
(***************************************************************************)
(* Model of json-log-viewer: the circular LogBuffer                        *)
(* (src/messageContainer.go), the rule engine and the directory scan       *)
(* processDir (src/unnamed/part_000).                                      *)
(*                                                                         *)
(* Go strings are modelled as sequences of one-character strings, so that  *)
(* strings.Contains and strings.HasSuffix are computed and not assumed.    *)
(* A Go slice of length n indexed from 0 is a function on 0..n-1 where the *)
(* code indexes it, and a sequence where the code only appends to it.      *)
(***************************************************************************)
EXTENDS Integers, Sequences, FiniteSets, TLC

VARIABLES
    b,        \* the LogBuffer under test / the buf of processDir
    hist,     \* history: messages pushed since construction or the last Clear
    fresh,    \* history: no Clear has been called on b yet
    out,      \* the last call made and what it returned
    pc,       \* processDir: position in the function body
    d,        \* processDir: the listing returned by os.ReadDir
    di,       \* processDir: index of the directory entry being visited
    fl,       \* processDir: lines already scanned from the current file
    rule,     \* the *Rule argument (Nil when no rule is supplied)
    limit,    \* processDir argument
    offset,   \* processDir argument
    opened,   \* processDir: file handles opened and not yet closed
    seen,     \* history: every line returned by scanner.Text(), in scan order
    arg,      \* rule engine: the candidate line given to Rule.Run
    req,      \* handleLogDir: the request (path values, query) and saved.json
    procs,    \* concurrent requests: the local state of each processDir call
    fs,       \* concurrent requests: the directory they all read
    registry  \* concurrent requests: the rule registry they all use

vars == <<b, hist, fresh, out, pc, d, di, fl, rule, limit, offset, opened, seen, arg,
          req, procs, fs, registry>>

-----------------------------------------------------------------------------
(* Bounds *)

MaxCap == 3       \* largest capacity given to NewLogBuffer in the buffer specification
MaxPush == 4      \* longest push history explored between two Clear calls
MaxArg == 2       \* largest offset / limit given to Get in the buffer specification
MaxLimit == 2     \* largest limit given to processDir
MaxOffset == 2    \* largest offset given to processDir
MaxLines == 2     \* most lines a single log file holds
MaxNodes == 3     \* most nodes (operators and operands) in a rule tree
MaxQuery == 2     \* longest limit / offset query value
MaxRequests == 2  \* processDir calls in flight at once

-----------------------------------------------------------------------------
(* Small helpers *)

Min(x, y) == IF x < y THEN x ELSE y

Max(x, y) == IF x > y THEN x ELSE y

\* The last n elements of sequence s (all of s when n >= Len(s)).
LastN(s, n) == SubSeq(s, Len(s) - Min(n, Len(s)) + 1, Len(s))

\* The Go zero value of string.
EmptyString == << >>

\* The candidate lines given to the rule engine.  Over the alphabet
\* {E, x, {, }} the text "{}" is the only one that json.Unmarshal decodes
\* into a map.
Lines == { EmptyString, <<"E">>, <<"x">>, <<"{", "}">> }

\* The messages pushed into the buffer under test; the empty string is what
\* an unwritten slot holds.
Messages == { EmptyString, <<"E">>, <<"x">> }

\* A nil pointer / nil slice / nil error.
Nil == [nil |-> TRUE]

NoErr == << >>

-----------------------------------------------------------------------------
(* LogBuffer: src/messageContainer.go *)

DefaultCapacity == 100

NewLogBuffer(capacity) ==
    LET c == IF capacity <= 0 THEN DefaultCapacity ELSE capacity
    IN  [ buffer   |-> [k \in 0..(c - 1) |-> EmptyString],
          capacity |-> c,
          size     |-> 0,
          start    |-> 0,
          end      |-> 0,
          isFull   |-> FALSE ]

\* Push without the isFull test: the count grows on every call.
Push_CountsEveryCall(buf, message) ==
    LET written == [buf.buffer EXCEPT ![buf.end] = message]
        start1  == IF buf.isFull THEN (buf.start + 1) % buf.capacity ELSE buf.start
        end1    == (buf.end + 1) % buf.capacity
    IN  [ buffer   |-> written,
          capacity |-> buf.capacity,
          size     |-> buf.size + 1,
          start    |-> start1,
          end      |-> end1,
          isFull   |-> IF end1 = start1 THEN TRUE ELSE buf.isFull ]

Push(buf, message) ==
    LET written == [buf.buffer EXCEPT ![buf.end] = message]
        start1  == IF buf.isFull THEN (buf.start + 1) % buf.capacity ELSE buf.start
        size1   == IF buf.isFull THEN buf.size ELSE buf.size + 1
        end1    == (buf.end + 1) % buf.capacity
    IN  [ buffer   |-> written,
          capacity |-> buf.capacity,
          size     |-> size1,
          start    |-> start1,
          end      |-> end1,
          isFull   |-> IF end1 = start1 THEN TRUE ELSE buf.isFull ]

\* The loops "idx = (idx - 1 + b.capacity) % b.capacity", run n times.
RECURSIVE StepBack(_, _, _)
StepBack(idx, n, capacity) ==
    IF n <= 0 THEN idx
    ELSE StepBack((idx - 1 + capacity) % capacity, n - 1, capacity)

ErrGetArgs == << <<"offset must be >= 0 and limit must be > 0">> >>

\* Get measuring the window from the oldest retained item instead of
\* stepping back from the newest.
Get_WindowFromOldest(buf, off, lim) ==
    IF off < 0 \/ lim <= 0 THEN
        [ret |-> << >>, isNil |-> TRUE, err |-> ErrGetArgs]
    ELSE IF buf.size = 0 \/ buf.size - off <= 0 THEN
        [ret |-> << >>, isNil |-> FALSE, err |-> NoErr]
    ELSE
        LET count  == IF buf.size - off < lim THEN buf.size - off ELSE lim
            oldest == StepBack((buf.end - 1 + buf.capacity) % buf.capacity,
                               buf.size - 1, buf.capacity)
        IN  [ret   |-> [i \in 1..count |->
                           buf.buffer[(oldest + off + (i - 1)) % buf.capacity]],
             isNil |-> FALSE,
             err   |-> NoErr]

\* Get testing for an empty buffer before validating its arguments.
Get_EmptyBeforeArgs(buf, off, lim) ==
    IF buf.size = 0 THEN
        [ret |-> << >>, isNil |-> FALSE, err |-> NoErr]
    ELSE IF off < 0 \/ lim <= 0 THEN
        [ret |-> << >>, isNil |-> TRUE, err |-> ErrGetArgs]
    ELSE
        LET totalAvailable == buf.size - off IN
        IF totalAvailable <= 0 THEN
            [ret |-> << >>, isNil |-> FALSE, err |-> NoErr]
        ELSE
            LET count       == IF totalAvailable < lim THEN totalAvailable ELSE lim
                newestIndex == (buf.end - 1 + buf.capacity) % buf.capacity
                startIndex  == StepBack(newestIndex, off, buf.capacity)
                chronoStart == StepBack(startIndex, count - 1, buf.capacity)
            IN  [ret   |-> [i \in 1..count |->
                               buf.buffer[(chronoStart + (i - 1)) % buf.capacity]],
                 isNil |-> FALSE,
                 err   |-> NoErr]

\* Get returns (slice, error): ret is the slice, isNil tells a nil slice from
\* an empty one.
Get(buf, off, lim) ==
    IF off < 0 \/ lim <= 0 THEN
        [ret |-> << >>, isNil |-> TRUE, err |-> ErrGetArgs]
    ELSE IF buf.size = 0 THEN
        [ret |-> << >>, isNil |-> FALSE, err |-> NoErr]
    ELSE
        LET totalAvailable == buf.size - off IN
        IF totalAvailable <= 0 THEN
            [ret |-> << >>, isNil |-> FALSE, err |-> NoErr]
        ELSE
            LET count       == IF totalAvailable < lim THEN totalAvailable ELSE lim
                newestIndex == (buf.end - 1 + buf.capacity) % buf.capacity
                startIndex  == StepBack(newestIndex, off, buf.capacity)
                chronoStart == StepBack(startIndex, count - 1, buf.capacity)
            IN  [ret   |-> [i \in 1..count |->
                               buf.buffer[(chronoStart + (i - 1)) % buf.capacity]],
                 isNil |-> FALSE,
                 err   |-> NoErr]

\* s[lo:hi] of a Go slice held as a function on 0..n-1, as a sequence.
Slice(s, lo, hi) == [k \in 1..(hi - lo) |-> s[lo + k - 1]]

\* make([]string, n)
MakeStrings(n) == [k \in 1..n |-> EmptyString]

\* copy(dst[at:], src): overwrites min(len(dst) - at, len(src)) elements.
CopyAt(dst, at, src) ==
    [k \in 1..Len(dst) |->
        IF k > at /\ k - at <= Len(src) THEN src[k - at] ELSE dst[k]]

GetAll(buf) ==
    IF buf.size = 0 THEN << >>
    ELSE
        LET result == MakeStrings(buf.size) IN
        IF buf.isFull \/ buf.start < buf.end THEN
            CopyAt(result, 0, Slice(buf.buffer, buf.start, buf.end))
        ELSE
            LET firstPart  == Slice(buf.buffer, buf.start, buf.capacity)
                secondPart == Slice(buf.buffer, 0, buf.end)
            IN  CopyAt(CopyAt(result, 0, firstPart), Len(firstPart), secondPart)

Size(buf) == buf.size

Capacity(buf) == buf.capacity

\* Clear leaving the full flag as it was.
Clear_KeepsFullFlag(buf) ==
    [buf EXCEPT !.size = 0, !.start = 0, !.end = 0]

\* Clear leaving the write cursor where it was.
Clear_KeepsWriteCursor(buf) ==
    [buf EXCEPT !.size = 0, !.start = 0, !.isFull = FALSE]

Clear(buf) ==
    [buf EXCEPT !.size = 0, !.start = 0, !.end = 0, !.isFull = FALSE]

-----------------------------------------------------------------------------
(* Decoded JSON values: the "any" held by Rule.Data and given as arg *)

Null == [t |-> "null"]

Str(s) == [t |-> "str", v |-> s]

Arr(a) == [t |-> "arr", v |-> a]

\* A map[string]any, of which the code reads the keys "Op" and "Data" only;
\* a key that is absent reads as nil, like a key holding null.
Obj(op, data) == [t |-> "obj", Op |-> op, Data |-> data]

-----------------------------------------------------------------------------
(* Rule engine: src/unnamed/part_000 *)

NameNot == <<"n", "o", "t">>

NameOr == <<"o", "r">>

NameAnd == <<"a", "n", "d">>

NameContains == <<"c", "o", "n", "t", "a", "i", "n", "s">>

\* The keys of the registry; ApplyOp holds the function of each key.
definedRuleOps == { NameNot, NameOr, NameAnd, NameContains }

\* fmt.Errorf("...: %w", err): an error is the chain of its messages,
\* outermost first; NoErr is the nil error.
Wrap(frame, err) == <<frame>> \o err

\* strings.Contains(s, sub)
StringsContains(s, sub) ==
    \E i \in 0..(Len(s) - Len(sub)) : SubSeq(s, i + 1, i + Len(sub)) = sub

ruleDataToRule(data) ==
    IF data.t # "obj" THEN
        [ret |-> [Op |-> EmptyString, Data |-> Null],
         err |-> << <<"data to rule: not an object">> >>]
    ELSE IF data.Op.t # "str" THEN
        [ret |-> [Op |-> EmptyString, Data |-> Null],
         err |-> << <<"data to rule: Op not a string">> >>]
    ELSE
        [ret |-> [Op |-> data.Op.v, Data |-> data.Data], err |-> NoErr]

RuleContains(rules, data, a) ==
    IF a.t # "str" THEN
        [ret |-> FALSE, err |-> << <<"rule contains: arg is not string">> >>]
    ELSE IF data.t # "str" THEN
        [ret |-> FALSE, err |-> << <<"rule contains: data is not string">> >>]
    ELSE
        [ret |-> StringsContains(a.v, data.v), err |-> NoErr]

RECURSIVE Run(_, _, _)
RECURSIVE RuleNot(_, _, _)
RECURSIVE RuleOrFrom(_, _, _, _)
RECURSIVE RuleOrFrom_NoShortCircuit(_, _, _, _)
RECURSIVE RuleAndFrom(_, _, _, _)
RECURSIVE RuleAndFrom_ErrorIsFalse(_, _, _, _)
RECURSIVE ApplyOp(_, _, _, _)

\* Rule.Run
Run(r, rules, a) ==
    IF r.Op \notin rules THEN
        [ret |-> FALSE, err |-> << <<"run rule op not found", r.Op>> >>]
    ELSE ApplyOp(r.Op, rules, r.Data, a)

\* The "not" operator with its decode-error test inverted.
RuleNot_InvertedErrTest(rules, data, a) ==
    LET dec == ruleDataToRule(data) IN
    IF dec.err = NoErr THEN
        [ret |-> FALSE, err |-> Wrap(<<"rule not: data is not rule">>, dec.err)]
    ELSE
        LET res == Run(dec.ret, rules, a)
        IN  [ret |-> ~res.ret, err |-> res.err]

RuleNot(rules, data, a) ==
    LET dec == ruleDataToRule(data) IN
    IF dec.err # NoErr THEN
        [ret |-> FALSE, err |-> Wrap(<<"rule not: data is not rule">>, dec.err)]
    ELSE
        LET res == Run(dec.ret, rules, a)
        IN  [ret |-> ~res.ret, err |-> res.err]

\* The "or" loop evaluating every element before looking at any result.
RuleOrFrom_NoShortCircuit(rules, els, i, a) ==
    IF i >= Len(els) THEN [ret |-> FALSE, err |-> NoErr]
    ELSE
        LET dec  == ruleDataToRule(els[i + 1])
            rest == RuleOrFrom_NoShortCircuit(rules, els, i + 1, a)
        IN
        IF dec.err # NoErr THEN
            [ret |-> FALSE, err |-> Wrap(<<"rule or: data is not rule", i>>, dec.err)]
        ELSE
            LET res == Run(dec.ret, rules, a) IN
            IF res.err # NoErr THEN
                [ret |-> res.ret, err |-> Wrap(<<"running or rule", i>>, res.err)]
            ELSE IF rest.err # NoErr THEN rest
            ELSE [ret |-> res.ret \/ rest.ret, err |-> NoErr]

\* The loop of "or" from element i (0-based) on.
RuleOrFrom(rules, els, i, a) ==
    IF i >= Len(els) THEN [ret |-> FALSE, err |-> NoErr]
    ELSE
        LET dec == ruleDataToRule(els[i + 1]) IN
        IF dec.err # NoErr THEN
            [ret |-> FALSE, err |-> Wrap(<<"rule or: data is not rule", i>>, dec.err)]
        ELSE
            LET res == Run(dec.ret, rules, a) IN
            IF res.err # NoErr THEN
                [ret |-> res.ret, err |-> Wrap(<<"running or rule", i>>, res.err)]
            ELSE IF res.ret THEN [ret |-> TRUE, err |-> NoErr]
            ELSE RuleOrFrom(rules, els, i + 1, a)

RuleOr(rules, data, a) ==
    IF data.t # "arr" THEN
        [ret |-> FALSE, err |-> << <<"rule or: data is not array">> >>]
    ELSE RuleOrFrom(rules, data.v, 0, a)

\* The "and" loop taking an element that fails for one that is false.
RuleAndFrom_ErrorIsFalse(rules, els, i, a) ==
    IF i >= Len(els) THEN [ret |-> TRUE, err |-> NoErr]
    ELSE
        LET dec == ruleDataToRule(els[i + 1]) IN
        IF dec.err # NoErr THEN
            [ret |-> FALSE, err |-> Wrap(<<"rule and: data is not rule", i>>, dec.err)]
        ELSE
            LET res == Run(dec.ret, rules, a) IN
            IF res.err # NoErr \/ ~res.ret THEN [ret |-> FALSE, err |-> NoErr]
            ELSE RuleAndFrom_ErrorIsFalse(rules, els, i + 1, a)

\* The loop of "and" from element i (0-based) on.
RuleAndFrom(rules, els, i, a) ==
    IF i >= Len(els) THEN [ret |-> TRUE, err |-> NoErr]
    ELSE
        LET dec == ruleDataToRule(els[i + 1]) IN
        IF dec.err # NoErr THEN
            [ret |-> FALSE, err |-> Wrap(<<"rule and: data is not rule", i>>, dec.err)]
        ELSE
            LET res == Run(dec.ret, rules, a) IN
            IF res.err # NoErr THEN
                [ret |-> res.ret, err |-> Wrap(<<"running and rule", i>>, res.err)]
            ELSE IF ~res.ret THEN [ret |-> FALSE, err |-> NoErr]
            ELSE RuleAndFrom(rules, els, i + 1, a)

RuleAnd(rules, data, a) ==
    IF data.t # "arr" THEN
        [ret |-> FALSE, err |-> << <<"rule and: data is not array">> >>]
    ELSE RuleAndFrom(rules, data.v, 0, a)

\* The call op(rules, r.Data, arg) of the function registered under name.
ApplyOp(name, rules, data, a) ==
    CASE name = NameNot      -> RuleNot(rules, data, a)
      [] name = NameOr       -> RuleOr(rules, data, a)
      [] name = NameAnd      -> RuleAnd(rules, data, a)
      [] name = NameContains -> RuleContains(rules, data, a)

-----------------------------------------------------------------------------
(* The LogBuffer API driven by an arbitrary caller *)

\* Values of the variables a specification does not use.
ScanIdle ==
    /\ pc = "idle" /\ d = << >> /\ di = 0 /\ fl = 0
    /\ limit = 0 /\ offset = 0 /\ opened = {} /\ seen = << >>

BufIdle == hist = << >> /\ fresh = TRUE

ServeIdle == req = Nil /\ procs = << >> /\ fs = << >> /\ registry = definedRuleOps

BufInit ==
    /\ \E c \in 0..MaxCap : b = NewLogBuffer(c)
    /\ hist = << >>
    /\ fresh = TRUE
    /\ out = [op |-> "NewLogBuffer"]
    /\ rule = Nil
    /\ arg = EmptyString
    /\ ScanIdle
    /\ ServeIdle

DoPush(m) ==
    /\ Len(hist) < MaxPush
    /\ b' = Push(b, m)
    /\ hist' = Append(hist, m)
    /\ out' = [op |-> "Push", message |-> m]
    /\ UNCHANGED <<fresh, pc, d, di, fl, rule, limit, offset, opened, seen, arg,
                   req, procs, fs, registry>>

DoGet(off, lim) ==
    /\ out' = [op |-> "Get", offset |-> off, limit |-> lim, res |-> Get(b, off, lim)]
    /\ UNCHANGED <<b, hist, fresh, pc, d, di, fl, rule, limit, offset, opened, seen, arg,
                   req, procs, fs, registry>>

DoGetAll ==
    /\ out' = [op |-> "GetAll", ret |-> GetAll(b)]
    /\ UNCHANGED <<b, hist, fresh, pc, d, di, fl, rule, limit, offset, opened, seen, arg,
                   req, procs, fs, registry>>

DoClear ==
    /\ b' = Clear(b)
    /\ hist' = << >>
    /\ fresh' = FALSE
    /\ out' = [op |-> "Clear"]
    /\ UNCHANGED <<pc, d, di, fl, rule, limit, offset, opened, seen, arg,
                   req, procs, fs, registry>>

BufNext ==
    \/ \E m \in Messages : DoPush(m)
    \/ \E off \in -1..MaxArg, lim \in -1..MaxArg : DoGet(off, lim)
    \/ DoGetAll
    \/ DoClear

SpecBuf == BufInit /\ [][BufNext]_vars

\* The messages the buffer is meant to retain, oldest first: the last
\* min(N, C) of the N messages pushed.
Retained == LastN(hist, Min(Len(hist), b.capacity))

-----------------------------------------------------------------------------
(* Claims about the LogBuffer, checked under SpecBuf *)

\* C3: after N Push calls on a fresh buffer of capacity C, GetAll returns
\* exactly the min(N, C) most recently pushed messages in push order.
C3_GetAllReturnsRetained ==
    (fresh /\ out.op = "GetAll") =>
        /\ Len(out.ret) = Min(Len(hist), b.capacity)
        /\ out.ret = Retained

\* C4: once N >= C messages have been pushed, Get(0, C) and GetAll return
\* the same sequence, element for element.
C4_GetZeroCapEqualsGetAll ==
    (fresh /\ Len(hist) >= b.capacity) =>
        /\ Get(b, 0, b.capacity).err = NoErr
        /\ Get(b, 0, b.capacity).ret = GetAll(b)

\* C5: for offset >= 0, limit > 0 and offset < size, Get(offset, limit)
\* returns min(limit, size - offset) items: the contiguous slice of the
\* retained messages that ends offset items before the newest, oldest first.
C5_GetWindow ==
    (/\ out.op = "Get"
     /\ out.offset >= 0 /\ out.limit > 0 /\ out.offset < b.size) =>
        LET R     == Retained
            count == Min(out.limit, b.size - out.offset)
        IN  /\ b.size = Len(R)
            /\ out.res.err = NoErr
            /\ Len(out.res.ret) = count
            /\ out.res.ret = SubSeq(R, Len(R) - out.offset - count + 1,
                                       Len(R) - out.offset)

C5_Witness ==
    /\ out.op = "Get"
    /\ fresh
    /\ Len(hist) > b.capacity
    /\ b.start > 0
    /\ out.offset > 0 /\ out.limit > 1
    /\ out.offset + out.limit <= b.size
    /\ out.res.ret[1] # out.res.ret[2]

\* C6: Get with offset < 0 or limit <= 0 fails with the invalid-argument
\* error, also on an empty buffer; Get with valid arguments and
\* offset >= size returns an empty sequence and no error; in both cases the
\* buffer is left as it was.
C6_GetRejectsOrEmpty ==
    [][ (out'.op = "Get" /\ vars' # vars) =>
          /\ (out'.offset < 0 \/ out'.limit <= 0) =>
                 /\ out'.res.err = ErrGetArgs
                 /\ out'.res.err # NoErr
                 /\ out'.res.ret = << >>
                 /\ b' = b
          /\ (out'.offset >= 0 /\ out'.limit > 0 /\ out'.offset >= b.size) =>
                 /\ out'.res.err = NoErr
                 /\ out'.res.ret = << >>
                 /\ b' = b ]_vars

C6_Witness ==
    /\ out.op = "Get"
    /\ out.offset >= 0 /\ out.limit <= 0
    /\ b.size = 0
    /\ out.res.err = ErrGetArgs

\* C7: size never exceeds the capacity; a Push onto a buffer holding C
\* items leaves size at C and evicts exactly the oldest item, every other
\* retained item staying retrievable in its original order.
C7_BoundedFifoEviction ==
    [][ /\ b.size <= b.capacity
        /\ b'.size <= b'.capacity
        /\ (out'.op = "Push" /\ hist' # hist /\ b.size = b.capacity) =>
              /\ b'.size = b.capacity
              /\ Get(b', 0, b.capacity).ret =
                     Append(Tail(Get(b, 0, b.capacity).ret), out'.message)
              /\ Get(b, 0, b.capacity).ret = Retained ]_vars

C7_Witness ==
    /\ out.op = "Push"
    /\ ~fresh
    /\ b.capacity > 1
    /\ Len(hist) > b.capacity
    /\ b.size = b.capacity
    /\ Get(b, 0, b.capacity).ret = LastN(hist, b.capacity)
    /\ hist[Len(hist) - b.capacity] # hist[Len(hist)]

\* C17: isFull is true exactly when size = C; while not full start = 0 and
\* end = size; when full start = end; both cursors stay within 0..C-1.
C17_CursorInvariant ==
    /\ b.isFull <=> (b.size = b.capacity)
    /\ ~b.isFull => (b.start = 0 /\ b.end = b.size)
    /\ b.isFull => (b.start = b.end)
    /\ 0 <= b.start /\ b.start < b.capacity
    /\ 0 <= b.end /\ b.end < b.capacity

C17_Witness ==
    /\ ~fresh
    /\ b.isFull
    /\ b.capacity > 1
    /\ b.start = b.end
    /\ b.start > 0
    /\ Len(hist) > b.capacity

\* The buffer obtained by pushing h onto buf.
RECURSIVE PushAll(_, _)
PushAll(buf, h) ==
    IF h = << >> THEN buf ELSE PushAll(Push(buf, Head(h)), Tail(h))

\* C18: after Clear, Size is 0 and Get / GetAll return nothing; from then
\* on Size, Get(offset, limit) and GetAll give what a newly created buffer
\* of the same capacity gives after the same pushes, so no message stored
\* before the Clear is ever returned.
C18_ClearedLikeNew ==
    ~fresh =>
        LET new == PushAll(NewLogBuffer(b.capacity), hist) IN
        /\ Size(b) = Size(new)
        /\ GetAll(b) = GetAll(new)
        /\ \A off \in -1..(MaxCap + 1), lim \in -1..(MaxCap + 1) :
              Get(b, off, lim) = Get(new, off, lim)
        /\ out.op = "Clear" =>
              /\ Size(b) = 0
              /\ GetAll(b) = << >>
              /\ \A off \in 0..(MaxCap + 1), lim \in 1..(MaxCap + 1) :
                    Get(b, off, lim) = [ret |-> << >>, isNil |-> FALSE, err |-> NoErr]

C18_Witness ==
    /\ ~fresh
    /\ out.op = "GetAll"
    /\ Len(hist) = 1
    /\ b.capacity = 3
    /\ b.buffer[1] # EmptyString
    /\ b.buffer[2] # EmptyString
    /\ b.buffer[0] # b.buffer[1]
    /\ out.ret = hist

-----------------------------------------------------------------------------
(* The rule engine applied to bounded rule trees and lines *)

NotObj(e) == Obj(Str(NameNot), e)

OrObj(els) == Obj(Str(NameOr), Arr(els))

AndObj(els) == Obj(Str(NameAnd), Arr(els))

\* Rule descriptions of one node: well-formed ones, and ones with an
\* unregistered Op, with Data of the wrong shape, or that are no rule at all.
LeafElems ==
    { Obj(Str(NameContains), Str(<<"E">>)),
      Obj(Str(NameContains), Str(<<"x">>)),
      Obj(Str(NameContains), Null),
      Obj(Str(<<"z">>), Null),
      Obj(Str(NameOr), Arr(<< >>)),
      Obj(Str(NameAnd), Arr(<< >>)),
      Obj(Str(NameOr), Null),
      Obj(Null, Null),
      Null }

RECURSIVE ElemsExact(_)
RECURSIVE SeqsExact(_)

\* The rule descriptions of exactly n nodes.
ElemsExact(n) ==
    IF n <= 1 THEN LeafElems
    ELSE { NotObj(e) : e \in ElemsExact(n - 1) }
           \cup { OrObj(els) : els \in SeqsExact(n - 1) }
           \cup { AndObj(els) : els \in SeqsExact(n - 1) }

\* The non-empty sequences of rule descriptions of k nodes in total.
SeqsExact(k) ==
    IF k <= 0 THEN { << >> }
    ELSE UNION { { <<e>> \o rest : e \in ElemsExact(j), rest \in SeqsExact(k - j) }
                 : j \in 1..k }

Elems == UNION { ElemsExact(n) : n \in 1..MaxNodes }

\* json.Unmarshal of a rule description into a *Rule of SavedStuff: the
\* description must be an object whose Op is a string.
SavedRule(e) == [Op |-> e.Op.v, Data |-> e.Data]

RuleTrees ==
    { SavedRule(e) : e \in { x \in Elems : x.t = "obj" /\ x.Op.t = "str" } }

RuleInit ==
    /\ rule \in RuleTrees
    /\ arg \in { Str(l) : l \in Lines }
    /\ out = [op |-> "none"]
    /\ b = NewLogBuffer(1)
    /\ BufIdle
    /\ ScanIdle
    /\ ServeIdle

DoRun ==
    /\ out.op = "none"
    /\ out' = [op |-> "Run", res |-> Run(rule, definedRuleOps, arg)]
    /\ UNCHANGED <<b, hist, fresh, pc, d, di, fl, rule, limit, offset, opened, seen, arg,
                   req, procs, fs, registry>>

RuleNext == DoRun

SpecRule == RuleInit /\ [][RuleNext]_vars

\* The rule not(R), as decoded from the description {"Op":"not","Data":R}.
NotOf(r) == [Op |-> NameNot, Data |-> Obj(Str(r.Op), r.Data)]

\* What an "or"/"and" node obtains for one element: decode it, then run it.
EvalElem(e, a) ==
    LET dec == ruleDataToRule(e) IN
    IF dec.err # NoErr THEN [ret |-> FALSE, err |-> dec.err]
    ELSE Run(dec.ret, definedRuleOps, a)

\* C9: when R evaluates without error on a line, not(not(R)) evaluates
\* without error on that line and yields the same boolean.
C9_DoubleNegation ==
    (out.op = "Run" /\ out.res.err = NoErr) =>
        LET nn == Run(NotOf(NotOf(rule)), definedRuleOps, arg)
        IN  /\ nn.err = NoErr
            /\ nn.ret = out.res.ret

C9_Witness ==
    /\ out.op = "Run"
    /\ out.res.err = NoErr
    /\ out.res.ret
    /\ rule.Op = NameAnd
    /\ Len(rule.Data.v) = 2
    /\ Run(NotOf(NotOf(rule)), definedRuleOps, arg) = [ret |-> TRUE, err |-> NoErr]
    /\ Run(NotOf(rule), definedRuleOps, arg) = [ret |-> FALSE, err |-> NoErr]

\* The first index (1-based) of els whose element evaluates, without error,
\* to want while every earlier element evaluates without error to ~want;
\* 0 when there is none.
Determining(els, a, want) ==
    LET hits == { k \in 1..Len(els) :
                    /\ EvalElem(els[k], a) = [ret |-> want, err |-> NoErr]
                    /\ \A j \in 1..(k - 1) :
                          EvalElem(els[j], a) = [ret |-> ~want, err |-> NoErr] }
    IN  IF hits = {} THEN 0 ELSE CHOOSE k \in hits : TRUE

\* C10: and([]) is true and or([]) is false, without error; "or" returns
\* true at its first true element and "and" returns false at its first
\* false element, whatever the elements after it are (they are neither
\* decoded nor evaluated, so they raise no error).
C10_VacuousAndShortCircuit ==
    (out.op = "Run" /\ rule.Op \in {NameOr, NameAnd} /\ rule.Data.t = "arr") =>
        LET els == rule.Data.v
            isOr == rule.Op = NameOr
        IN  /\ els = << >> => out.res = [ret |-> ~isOr, err |-> NoErr]
            /\ Determining(els, arg, isOr) # 0 =>
                   out.res = [ret |-> isOr, err |-> NoErr]

C10_Witness ==
    /\ out.op = "Run"
    /\ rule.Op = NameOr
    /\ rule.Data.t = "arr"
    /\ Len(rule.Data.v) = 2
    /\ Determining(rule.Data.v, arg, TRUE) = 1
    /\ EvalElem(rule.Data.v[2], arg).err # NoErr
    /\ out.res = [ret |-> TRUE, err |-> NoErr]

\* C11: when the nested rule R of not(R) fails, not(R) returns R's error
\* unchanged together with R's boolean (false), not its negation; when R
\* does not fail, not(R) returns the negation of R's boolean.
C11_NotKeepsErrorAndBoolean ==
    (/\ out.op = "Run"
     /\ rule.Op = NameNot
     /\ ruleDataToRule(rule.Data).err = NoErr) =>
        LET inner == Run(ruleDataToRule(rule.Data).ret, definedRuleOps, arg) IN
        IF inner.err # NoErr
        THEN /\ out.res.err = inner.err
             /\ out.res.ret = inner.ret
             /\ out.res.ret = FALSE
        ELSE out.res = [ret |-> ~inner.ret, err |-> NoErr]

RECURSIVE Outcome(_, _)
RECURSIVE SeqOutcome(_, _, _, _)

\* The documented meaning of a rule description e on line a: "err" when
\* the evaluation reaches a node that is no rule, whose Op is not
\* registered or whose Data has not the shape its Op expects; otherwise the
\* boolean, as "true" or "false".
Outcome(e, a) ==
    IF e.t # "obj" THEN "err"
    ELSE IF e.Op.t # "str" THEN "err"
    ELSE IF e.Op.v \notin definedRuleOps THEN "err"
    ELSE IF e.Op.v = NameContains THEN
        IF e.Data.t # "str" THEN "err"
        ELSE IF StringsContains(a.v, e.Data.v) THEN "true" ELSE "false"
    ELSE IF e.Op.v = NameNot THEN
        LET o == Outcome(e.Data, a) IN
        IF o = "err" THEN "err" ELSE IF o = "true" THEN "false" ELSE "true"
    ELSE IF e.Data.t # "arr" THEN "err"
    ELSE SeqOutcome(e.Data.v, 1, a, IF e.Op.v = NameOr THEN "true" ELSE "false")

\* Elements k.. of an "or" (stop = "true") or "and" (stop = "false") node:
\* the first element that is stop or "err" decides.
SeqOutcome(els, k, a, stop) ==
    IF k > Len(els) THEN (IF stop = "true" THEN "false" ELSE "true")
    ELSE LET o == Outcome(els[k], a) IN
         IF o = "err" \/ o = stop THEN o ELSE SeqOutcome(els, k + 1, a, stop)

\* The description a *Rule was decoded from.
AsElem(r) == Obj(Str(r.Op), r.Data)

\* C16: when the evaluation reaches a node whose Op is not registered or
\* whose Data has the wrong shape, every enclosing not/and/or node fails
\* too, and the root Run call returns an error, never a plain boolean.
C16_ErrorsReachTheRoot ==
    (out.op = "Run" /\ Outcome(AsElem(rule), arg) = "err") => out.res.err # NoErr

C16_Witness ==
    /\ out.op = "Run"
    /\ rule.Op = NameAnd
    /\ rule.Data.t = "arr"
    /\ Len(rule.Data.v) = 1
    /\ rule.Data.v[1].t = "obj"
    /\ rule.Data.v[1].Op = Str(NameNot)
    /\ rule.Data.v[1].Data.t = "obj"
    /\ Outcome(rule.Data.v[1].Data, arg) = "err"
    /\ Len(out.res.err) = 2
    /\ out.res.err[1] = <<"running and rule", 0>>

-----------------------------------------------------------------------------
(* processDir: src/unnamed/part_000 *)

LogSuffix == <<".", "l", "o", "g">>

\* strings.HasSuffix(n, suffix)
HasSuffix(n, suffix) ==
    /\ Len(n) >= Len(suffix)
    /\ SubSeq(n, Len(n) - Len(suffix) + 1, Len(n)) = suffix

\* The entries a directory may hold, in the order os.ReadDir lists them
\* (sorted by file name): two log files, a directory with a log-file name
\* and a file that is no log file.
DirTable ==
    << [name |-> <<"a", ".", "l", "o", "g">>, isDir |-> FALSE],
       [name |-> <<"b", ".", "l", "o", "g">>, isDir |-> FALSE],
       [name |-> <<"c", ".", "l", "o", "g">>, isDir |-> TRUE],
       [name |-> <<"d", ".", "t", "x", "t">>, isDir |-> FALSE] >>

\* The sub-sequence of s at the positions in keep.
RECURSIVE Pick(_, _, _)
Pick(s, keep, k) ==
    IF k > Len(s) THEN << >>
    ELSE (IF k \in keep THEN <<s[k]>> ELSE << >>) \o Pick(s, keep, k + 1)

\* What os.ReadDir may return: any directory made of entries of DirTable.
Listings == { Pick(DirTable, keep, 1) : keep \in SUBSET (1..Len(DirTable)) }

\* The lines scanner.Text() may return.
ScanLines == { <<"E">>, <<"x", "E">>, <<"{", "}">> }

\* The rules given to processDir: some that never fail and some that fail
\* on certain lines only (an unregistered Op behind a short-circuit).
ScanRules ==
    { Nil,
      SavedRule(Obj(Str(NameContains), Str(<<"E">>))),
      SavedRule(NotObj(Obj(Str(NameContains), Str(<<"E">>)))),
      SavedRule(AndObj(<< Obj(Str(NameContains), Str(<<"E">>)),
                          Obj(Str(<<"z">>), Null) >>)),
      SavedRule(OrObj(<< Obj(Str(NameContains), Str(<<"{">>)),
                         Obj(Str(<<"z">>), Null) >>)) }

ErrReadDir == << <<"readdir">> >>

ErrOpen == << <<"open">> >>

\* json.Unmarshal([]byte(msg), &msgParsed) with msgParsed a map: among the
\* texts over the alphabet of Lines only "{}" decodes, to the empty map.  A
\* map is the set of its <<key, value>> pairs.
JsonUnmarshalMap(msg) ==
    IF msg = <<"{", "}">> THEN [err |-> FALSE, m |-> {}]
    ELSE [err |-> TRUE, m |-> {}]

\* The record appended to ret for one message.
ToRecord(msg) ==
    LET dec == JsonUnmarshalMap(msg) IN
    IF dec.err THEN { <<"message", msg>> } ELSE dec.m

\* for _, msg := range slices.Backward(msgs) { ret = append(ret, record) }
RecordsBackward(msgs) ==
    [i \in 1..Len(msgs) |-> ToRecord(msgs[Len(msgs) - i + 1])]

\* return nil, err
ReturnErr(e) == [op |-> "processDir", ret |-> << >>, isNil |-> TRUE, err |-> e]

ScanInit ==
    /\ pc = "start"
    /\ rule \in ScanRules
    /\ limit \in 0..MaxLimit
    /\ offset \in -1..MaxOffset
    /\ d = << >>
    /\ di = 0
    /\ fl = 0
    /\ opened = {}
    /\ seen = << >>
    /\ b = Nil
    /\ out = [op |-> "processDir"]
    /\ arg = EmptyString
    /\ BufIdle
    /\ ServeIdle

\* os.ReadDir fails.
ReadDirFail ==
    /\ pc = "start"
    /\ pc' = "done"
    /\ out' = ReturnErr(ErrReadDir)
    /\ UNCHANGED <<b, hist, fresh, d, di, fl, rule, limit, offset, opened, seen, arg,
                   req, procs, fs, registry>>

\* os.ReadDir succeeds, the buffer being sized for the page without the
\* offset.
ReadDirOk_CapacityLimitOnly(listing) ==
    /\ pc = "start"
    /\ d' = listing
    /\ b' = NewLogBuffer(limit)
    /\ di' = 0
    /\ pc' = "entries"
    /\ UNCHANGED <<hist, fresh, out, fl, rule, limit, offset, opened, seen, arg,
                   req, procs, fs, registry>>

\* os.ReadDir succeeds and the pagination arguments are validated before
\* the scan instead of by Get after it.
ReadDirOk_ValidatesFirst(listing) ==
    /\ pc = "start"
    /\ d' = listing
    /\ b' = NewLogBuffer(limit + offset)
    /\ di' = 0
    /\ IF offset < 0 \/ limit <= 0
       THEN pc' = "done" /\ out' = ReturnErr(ErrGetArgs)
       ELSE pc' = "entries" /\ out' = out
    /\ UNCHANGED <<hist, fresh, fl, rule, limit, offset, opened, seen, arg,
                   req, procs, fs, registry>>

\* os.ReadDir succeeds and the buffer is created.
ReadDirOk(listing) ==
    /\ pc = "start"
    /\ d' = listing
    /\ b' = NewLogBuffer(limit + offset)
    /\ di' = 0
    /\ pc' = "entries"
    /\ UNCHANGED <<hist, fresh, out, fl, rule, limit, offset, opened, seen, arg,
                   req, procs, fs, registry>>

Eligible(de) == ~de.isDir /\ HasSuffix(de.name, LogSuffix)

\* A directory or a file without the .log suffix: continue.
SkipEntry ==
    /\ pc = "entries"
    /\ di < Len(d)
    /\ ~Eligible(d[di + 1])
    /\ di' = di + 1
    /\ UNCHANGED <<b, hist, fresh, out, pc, d, fl, rule, limit, offset, opened, seen, arg,
                   req, procs, fs, registry>>

\* os.Open fails and processDir returns with the files opened so far left
\* open (Close called at the end of the function instead of deferred).
OpenFail_KeepsHandles ==
    /\ pc = "entries"
    /\ di < Len(d)
    /\ Eligible(d[di + 1])
    /\ pc' = "done"
    /\ out' = ReturnErr(ErrOpen)
    /\ UNCHANGED <<b, hist, fresh, d, di, fl, rule, limit, offset, opened, seen, arg,
                   req, procs, fs, registry>>

\* os.Open fails: return nil, err; the deferred Close calls run.
OpenFail ==
    /\ pc = "entries"
    /\ di < Len(d)
    /\ Eligible(d[di + 1])
    /\ pc' = "done"
    /\ out' = ReturnErr(ErrOpen)
    /\ opened' = {}
    /\ UNCHANGED <<b, hist, fresh, d, di, fl, rule, limit, offset, seen, arg,
                   req, procs, fs, registry>>

\* os.Open succeeds; defer f.Close(); a scanner is put on the file.
OpenOk ==
    /\ pc = "entries"
    /\ di < Len(d)
    /\ Eligible(d[di + 1])
    /\ opened' = opened \cup {di + 1}
    /\ fl' = 0
    /\ pc' = "lines"
    /\ UNCHANGED <<b, hist, fresh, out, d, di, rule, limit, offset, seen, arg,
                   req, procs, fs, registry>>

\* scanner.Scan() returns false: next directory entry.
ScanEnd ==
    /\ pc = "lines"
    /\ di' = di + 1
    /\ pc' = "entries"
    /\ UNCHANGED <<b, hist, fresh, out, d, fl, rule, limit, offset, opened, seen, arg,
                   req, procs, fs, registry>>

\* No rule: every line is pushed.
ScanPushAll(l) ==
    /\ pc = "lines"
    /\ fl < MaxLines
    /\ rule = Nil
    /\ seen' = Append(seen, l)
    /\ fl' = fl + 1
    /\ b' = Push(b, l)
    /\ UNCHANGED <<hist, fresh, out, pc, d, di, rule, limit, offset, opened, arg,
                   req, procs, fs, registry>>

\* A rule: the line is pushed when the rule matches it.
ScanRuleOk(l) ==
    /\ pc = "lines"
    /\ fl < MaxLines
    /\ rule # Nil
    /\ LET res == Run(rule, definedRuleOps, Str(l)) IN
        /\ res.err = NoErr
        /\ b' = IF res.ret THEN Push(b, l) ELSE b
    /\ seen' = Append(seen, l)
    /\ fl' = fl + 1
    /\ UNCHANGED <<hist, fresh, out, pc, d, di, rule, limit, offset, opened, arg,
                   req, procs, fs, registry>>

\* A failing rule treated as a line that does not match: the scan goes on.
ScanRuleErr_SkipsLine(l) ==
    /\ pc = "lines"
    /\ fl < MaxLines
    /\ rule # Nil
    /\ Run(rule, definedRuleOps, Str(l)).err # NoErr
    /\ seen' = Append(seen, l)
    /\ fl' = fl + 1
    /\ UNCHANGED <<b, hist, fresh, out, pc, d, di, rule, limit, offset, opened, arg,
                   req, procs, fs, registry>>

\* A rule that fails on the line: return nil, the wrapped error.
ScanRuleErr(l) ==
    /\ pc = "lines"
    /\ fl < MaxLines
    /\ rule # Nil
    /\ LET res == Run(rule, definedRuleOps, Str(l)) IN
        /\ res.err # NoErr
        /\ out' = ReturnErr(Wrap(<<"processing rule on line", l>>, res.err))
    /\ seen' = Append(seen, l)
    /\ fl' = fl + 1
    /\ opened' = {}
    /\ pc' = "done"
    /\ UNCHANGED <<b, hist, fresh, d, di, rule, limit, offset, arg,
                   req, procs, fs, registry>>

\* The end of processDir without slices.Backward: the page as Get gave it.
Finish_NoBackward ==
    /\ pc = "entries"
    /\ di >= Len(d)
    /\ LET got == Get(b, offset, limit) IN
        out' = IF got.err # NoErr THEN ReturnErr(got.err)
               ELSE [op |-> "processDir",
                     ret |-> [i \in 1..Len(got.ret) |-> ToRecord(got.ret[i])],
                     isNil |-> FALSE, err |-> NoErr]
    /\ opened' = {}
    /\ pc' = "done"
    /\ UNCHANGED <<b, hist, fresh, d, di, fl, rule, limit, offset, seen, arg,
                   req, procs, fs, registry>>

\* After the loop: buf.Get(offset, limit), then the records newest first.
Finish ==
    /\ pc = "entries"
    /\ di >= Len(d)
    /\ LET got == Get(b, offset, limit) IN
        out' = IF got.err # NoErr THEN ReturnErr(got.err)
               ELSE [op |-> "processDir", ret |-> RecordsBackward(got.ret),
                     isNil |-> FALSE, err |-> NoErr]
    /\ opened' = {}
    /\ pc' = "done"
    /\ UNCHANGED <<b, hist, fresh, d, di, fl, rule, limit, offset, seen, arg,
                   req, procs, fs, registry>>

ScanNext ==
    \/ ReadDirFail
    \/ \E listing \in Listings : ReadDirOk(listing)
    \/ SkipEntry
    \/ OpenFail
    \/ OpenOk
    \/ ScanEnd
    \/ \E l \in ScanLines : ScanPushAll(l)
    \/ \E l \in ScanLines : ScanRuleOk(l)
    \/ \E l \in ScanLines : ScanRuleErr(l)
    \/ Finish

SpecScan == ScanInit /\ [][ScanNext]_vars

-----------------------------------------------------------------------------
(* Claims about processDir, checked under SpecScan *)

\* The directory was read and every eligible file was opened.
Readable == out.err # ErrReadDir /\ out.err # ErrOpen

\* What the rule gives on line l.
RunOn(l) == Run(rule, definedRuleOps, Str(l))

\* The rule evaluates without error on every scanned line.
RuleErrFree == rule = Nil \/ \A k \in 1..Len(seen) : RunOn(seen[k]).err = NoErr

Accepted(l) == rule = Nil \/ RunOn(l).ret

\* M: the accepted lines in scan order.
AcceptedLines == SelectSeq(seen, Accepted)

\* C1: with limit > 0, offset >= 0, a readable directory and a rule that
\* never fails, the result has min(limit, max(0, |M| - offset)) records and
\* record i (0-based) is the accepted line offset + i positions back from
\* the last accepted line (newest-scanned first).
C1_PageNewestFirst ==
    (pc = "done" /\ limit > 0 /\ offset >= 0 /\ Readable /\ RuleErrFree) =>
        LET M == AcceptedLines
            n == Min(limit, Max(0, Len(M) - offset))
        IN  /\ out.err = NoErr
            /\ ~out.isNil
            /\ Len(out.ret) = n
            /\ \A i \in 0..(n - 1) :
                  out.ret[i + 1] = ToRecord(M[Len(M) - offset - i])

C1_Witness ==
    /\ pc = "done"
    /\ rule # Nil
    /\ out.err = NoErr
    /\ offset > 0
    /\ Len(AcceptedLines) >= limit + offset
    /\ Len(AcceptedLines) < Len(seen)
    /\ di >= 2
    /\ Len(out.ret) >= 2
    /\ out.ret[1] # out.ret[2]
    /\ out.ret[1] = ToRecord(AcceptedLines[Len(AcceptedLines) - offset])

\* The case of C2: no rule, a readable directory whose eligible files hold
\* exactly limit + offset lines.
C2_Case ==
    /\ pc = "done"
    /\ rule = Nil
    /\ limit > 0 /\ offset >= 0
    /\ Readable
    /\ Len(seen) = limit + offset

\* C2 as stated: the page holds the limit oldest-visited lines, oldest
\* first.
C2_OldestPageChronological ==
    C2_Case =>
        /\ out.err = NoErr
        /\ out.ret = [i \in 1..limit |-> ToRecord(seen[i])]

\* C2 as amended: the page holds the limit oldest-visited lines (the offset
\* most recent are skipped), most recently visited first.
C2_OldestPageNewestFirst ==
    C2_Case =>
        /\ out.err = NoErr
        /\ out.ret = [i \in 1..limit |-> ToRecord(seen[limit - i + 1])]

C2_Witness ==
    /\ C2_Case
    /\ limit = 2 /\ offset = 2
    /\ Len(d) >= 2
    /\ Len(out.ret) = 2
    /\ out.ret[1] = ToRecord(seen[2])
    /\ out.ret[2] = ToRecord(seen[1])
    /\ out.ret[1] # out.ret[2]

\* C8: a rule error on a scanned line, a failed os.Open or a failed
\* os.ReadDir ends processDir there: no later line or file is processed and
\* the result is a nil record list with the error, whatever was pushed
\* before.
C8_ErrorAbortsWithNil ==
    /\ (pc = "done" /\ out.err # NoErr) => (out.isNil /\ out.ret = << >>)
    /\ (pc # "done") => (out = [op |-> "processDir"])
    /\ rule # Nil =>
          \A k \in 1..Len(seen) :
              RunOn(seen[k]).err # NoErr =>
                  /\ k = Len(seen)
                  /\ pc = "done"
                  /\ out = ReturnErr(Wrap(<<"processing rule on line", seen[k]>>,
                                          RunOn(seen[k]).err))

C8_Witness ==
    /\ pc = "done"
    /\ rule # Nil
    /\ out.err # NoErr
    /\ out.isNil
    /\ Len(seen) >= 2
    /\ RunOn(seen[Len(seen)]).err # NoErr
    /\ b.size >= 2
    /\ di >= 1


\* C14: every file handle processDir opened is closed when it returns, on
\* every exit path; until then the handle of every file visited stays open.
C14_HandlesClosedAtReturn ==
    /\ pc = "done" => opened = {}
    /\ pc \in {"entries", "lines"} =>
          opened = { k \in 1..Len(d) :
                       /\ Eligible(d[k])
                       /\ (k <= di \/ (k = di + 1 /\ pc = "lines")) }

C14_Witness ==
    /\ pc = "done"
    /\ out.err = ErrOpen
    /\ Len(seen) >= 1
    /\ di >= 1
    /\ opened = {}

\* C19: with limit <= 0 or offset < 0, a readable directory and a rule that
\* never fails, processDir returns an error and no records; the buffer has
\* the default capacity when limit + offset <= 0; the failure comes only
\* once every directory entry has been visited.
C19_BadPaginationFailsAfterScan ==
    /\ (b # Nil /\ limit + offset <= 0) => b.capacity = DefaultCapacity
    /\ (b # Nil /\ limit + offset > 0) => b.capacity = limit + offset
    /\ (limit <= 0 \/ offset < 0) =>
          /\ (pc = "done" /\ Readable /\ RuleErrFree) =>
                /\ out = ReturnErr(ErrGetArgs)
                /\ di = Len(d)
          /\ pc # "done" => out = [op |-> "processDir"]

C19_Witness ==
    /\ pc = "done"
    /\ limit + offset <= 0
    /\ rule # Nil
    /\ out = ReturnErr(ErrGetArgs)
    /\ b.capacity = DefaultCapacity
    /\ Len(seen) >= 3
    /\ b.size >= 3
    /\ Len(d) >= 3

-----------------------------------------------------------------------------
(* handleLogDir: src/unnamed/part_000 *)

Digits == <<"0", "1", "2", "3", "4", "5", "6", "7", "8", "9">>

IsDigit(c) == \E k \in 1..10 : Digits[k] = c

DigitValue(c) == (CHOOSE k \in 1..10 : Digits[k] = c) - 1

\* The value of a sequence of decimal digits.
RECURSIVE Decimal(_)
Decimal(ds) ==
    IF ds = << >> THEN 0
    ELSE 10 * Decimal(SubSeq(ds, 1, Len(ds) - 1)) + DigitValue(ds[Len(ds)])

\* strconv.Atoi(s): an optional sign followed by one or more decimal
\* digits; anything else is an error (and the value 0).
Atoi(s) ==
    LET signed == s # << >> /\ s[1] \in {"+", "-"}
        body   == IF signed THEN Tail(s) ELSE s
    IN  IF body = << >> \/ \E k \in 1..Len(body) : ~IsDigit(body[k])
        THEN [n |-> 0, err |-> TRUE]
        ELSE [n |-> IF signed /\ s[1] = "-" THEN 0 - Decimal(body) ELSE Decimal(body),
              err |-> FALSE]

DefaultLimit == 500

DefaultOffset == 0

DefaultStep == 500

\* m[k] of a Go map: the zero value when the key is absent.
Lookup(m, k, zero) == IF k \in DOMAIN m THEN m[k] ELSE zero

\* The maps from a subset of keys into vals.
MapsOver(keys, vals) == UNION { [ks -> vals] : ks \in SUBSET keys }

\* Query values: the texts of at most MaxQuery characters over these; the
\* empty text is what Query().Get gives for a missing parameter.
QueryChars == {"0", "2", "-", "x"}

QueryValues == UNION { [1..n -> QueryChars] : n \in 0..MaxQuery }

DirNames == { <<"d">>, <<"e">> }

RuleSetNames == { <<"r">> }

GlobalRule == SavedRule(Obj(Str(NameContains), Str(<<"E">>)))

DirRule == SavedRule(Obj(Str(NameContains), Str(<<"x">>)))

\* The decoded saved.json files: RuleSets and LogDirs, where a name may be
\* absent, hold null or hold a rule, and a directory may be absent or hold
\* a (possibly empty) map.
SavedFiles ==
    { [RuleSets |-> rs, LogDirs |-> ld] :
        rs \in MapsOver(RuleSetNames, {Nil, GlobalRule}),
        ld \in MapsOver({ <<"d">> }, MapsOver(RuleSetNames, {Nil, DirRule})) }

\* The rule handleLogDir selects from saved for dirName and ruleSetName,
\* the global rule set consulted before the directory's.
SelectRule_GlobalFirst(saved, dirName, ruleSetName) ==
    LET global == Lookup(saved.RuleSets, ruleSetName, Nil) IN
    IF global # Nil THEN global
    ELSE IF dirName \in DOMAIN saved.LogDirs
         THEN Lookup(saved.LogDirs[dirName], ruleSetName, Nil)
         ELSE Nil

\* The rule handleLogDir selects from saved for dirName and ruleSetName.
SelectRule(saved, dirName, ruleSetName) ==
    LET rule1 == IF dirName \in DOMAIN saved.LogDirs
                 THEN Lookup(saved.LogDirs[dirName], ruleSetName, Nil)
                 ELSE Nil
    IN  IF rule1 = Nil THEN Lookup(saved.RuleSets, ruleSetName, Nil) ELSE rule1

\* The limit, offset and step handleLogDir derives from the query.
Pagination(q) ==
    LET l  == Atoi(q.limit)
        o  == Atoi(q.offset)
        st == Atoi(q.step)
    IN  [limit  |-> IF l.err THEN DefaultLimit ELSE l.n,
         offset |-> IF o.err THEN DefaultOffset ELSE o.n,
         step   |-> IF st.err THEN DefaultStep ELSE st.n]

HandleInit ==
    /\ req \in [ dirName     : DirNames,
                 ruleSetName : RuleSetNames \cup {EmptyString},
                 query       : [limit : QueryValues, offset : QueryValues,
                                step : {EmptyString, <<"2">>}],
                 saved       : SavedFiles ]
    /\ out = [op |-> "handleLogDir", state |-> "received"]
    /\ pc = "idle"
    /\ rule = Nil /\ limit = 0 /\ offset = 0
    /\ d = << >> /\ di = 0 /\ fl = 0 /\ opened = {} /\ seen = << >>
    /\ b = Nil
    /\ arg = EmptyString
    /\ BufIdle
    /\ procs = << >> /\ fs = << >> /\ registry = definedRuleOps

\* os.ReadFile("saved.json") or json.Unmarshal fails: a message page, and
\* processDir is not called.
HandleSavedFail ==
    /\ out.state = "received"
    /\ out' = [op |-> "handleLogDir", state |-> "message"]
    /\ UNCHANGED <<b, hist, fresh, pc, d, di, fl, rule, limit, offset, opened, seen, arg,
                   req, procs, fs, registry>>

\* saved.json is decoded; the handler reaches the call
\* processDir(dirName, rule, limit, offset).
HandleCall ==
    /\ out.state = "received"
    /\ LET p == Pagination(req.query) IN
        /\ limit' = p.limit
        /\ offset' = p.offset
        /\ out' = [op |-> "handleLogDir", state |-> "called", step |-> p.step]
    /\ rule' = SelectRule(req.saved, req.dirName, req.ruleSetName)
    /\ pc' = "start"
    /\ UNCHANGED <<b, hist, fresh, d, di, fl, opened, seen, arg,
                   req, procs, fs, registry>>

HandleNext == HandleSavedFail \/ HandleCall

SpecHandle == HandleInit /\ [][HandleNext]_vars

\* A limit query value the handler is expected to replace by the default.
BadLimit(q) == Atoi(q).err \/ Atoi(q).n <= 0

\* An offset query value the handler is expected to replace by the default.
BadOffset(q) == Atoi(q).err \/ Atoi(q).n < 0

\* C12: processDir is never called with limit <= 0 or offset < 0: a
\* missing, non-numeric, zero or negative limit is replaced by 500 and a
\* missing, non-numeric or negative offset by 0.
C12_CallHasValidPagination ==
    out.state = "called" =>
        /\ limit > 0
        /\ offset >= 0
        /\ BadLimit(req.query.limit) => limit = DefaultLimit
        /\ BadOffset(req.query.offset) => offset = DefaultOffset

\* C13: the rule passed to processDir is LogDirs[d][r] when that entry
\* exists and is not null, otherwise RuleSets[r] when that exists,
\* otherwise none, and then every line is accepted.  An entry of the
\* directory overrides a global entry of the same name.
C13_DirRuleBeforeGlobal ==
    out.state = "called" =>
        LET sv  == req.saved
            dn  == req.dirName
            rn  == req.ruleSetName
            own == /\ dn \in DOMAIN sv.LogDirs
                   /\ rn \in DOMAIN sv.LogDirs[dn]
                   /\ sv.LogDirs[dn][rn] # Nil
        IN  /\ own => rule = sv.LogDirs[dn][rn]
            /\ (~own /\ rn \in DOMAIN sv.RuleSets) => rule = sv.RuleSets[rn]
            /\ (~own /\ rn \notin DOMAIN sv.RuleSets) =>
                  rule = Nil /\ \A l \in ScanLines : Accepted(l)

C13_Witness ==
    /\ out.state = "called"
    /\ req.dirName \in DOMAIN req.saved.LogDirs
    /\ req.ruleSetName \in DOMAIN req.saved.LogDirs[req.dirName]
    /\ req.ruleSetName \in DOMAIN req.saved.RuleSets
    /\ req.saved.RuleSets[req.ruleSetName] = GlobalRule
    /\ rule = DirRule

-----------------------------------------------------------------------------
(* Concurrent requests: net/http serves each request on its own goroutine,
   so several processDir calls interleave.  Each call has its own locals;
   the directory on disk and definedRuleOps are shared and only read. *)

Requests == 1..MaxRequests

LogFile(c, lines, openable) ==
    [name |-> <<c>> \o LogSuffix, isDir |-> FALSE, openable |-> openable, lines |-> lines]

\* The directories the requests read: one with two log files and a
\* sub-directory, one whose second file cannot be opened, one that cannot
\* be read.
ServeDirs ==
    { [readable |-> TRUE,
       entries  |-> << LogFile("a", << <<"E">>, <<"x", "E">> >>, TRUE),
                       LogFile("b", << <<"{", "}">> >>, TRUE),
                       [name |-> <<"c">> \o LogSuffix, isDir |-> TRUE,
                        openable |-> TRUE, lines |-> << >>] >>],
      [readable |-> TRUE,
       entries  |-> << LogFile("a", << <<"x", "E">> >>, TRUE),
                       LogFile("b", << >>, FALSE) >>],
      [readable |-> FALSE, entries |-> << >>] }

\* The rules of the requests: none, one that never fails and one that
\* fails on the lines containing x.
ServeRules ==
    { Nil,
      SavedRule(Obj(Str(NameContains), Str(<<"E">>))),
      SavedRule(AndObj(<< Obj(Str(NameContains), Str(<<"x">>)),
                          Obj(Str(<<"z">>), Null) >>)) }

\* The arguments of one processDir call.
ServeArgs ==
    { [rule |-> r, limit |-> p[1], offset |-> p[2]] :
        r \in ServeRules, p \in { <<1, 0>>, <<2, 1>> } }

\* The result of processDir after the loop, from the buffer lb.
Page(lb, off, lim) ==
    LET got == Get(lb, off, lim) IN
    IF got.err # NoErr THEN ReturnErr(got.err)
    ELSE [op |-> "processDir", ret |-> RecordsBackward(got.ret),
          isNil |-> FALSE, err |-> NoErr]

\* processDir run by itself on directory f: the loops of the function
\* folded over the entries and their lines.
RECURSIVE AloneEntries(_, _, _, _, _, _), AloneLines(_, _, _, _, _, _, _)
AloneEntries(f, r, lim, off, lb, k) ==
    IF k > Len(f.entries) THEN Page(lb, off, lim)
    ELSE IF ~Eligible(f.entries[k]) THEN AloneEntries(f, r, lim, off, lb, k + 1)
    ELSE IF ~f.entries[k].openable THEN ReturnErr(ErrOpen)
    ELSE AloneLines(f, r, lim, off, lb, k, 1)

AloneLines(f, r, lim, off, lb, k, j) ==
    IF j > Len(f.entries[k].lines) THEN AloneEntries(f, r, lim, off, lb, k + 1)
    ELSE LET l == f.entries[k].lines[j] IN
         IF r = Nil THEN AloneLines(f, r, lim, off, Push(lb, l), k, j + 1)
         ELSE LET res == Run(r, definedRuleOps, Str(l)) IN
              IF res.err # NoErr
              THEN ReturnErr(Wrap(<<"processing rule on line", l>>, res.err))
              ELSE AloneLines(f, r, lim, off,
                              IF res.ret THEN Push(lb, l) ELSE lb, k, j + 1)

ProcessDirAlone(f, r, lim, off) ==
    IF ~f.readable THEN ReturnErr(ErrReadDir)
    ELSE AloneEntries(f, r, lim, off, NewLogBuffer(lim + off), 1)

\* The buffer request i works on, were lb one package-level variable
\* instead of a local of each call.
Lb_PackageLevel(i) == 1

\* The buffer request i works on: the one its own call created.
Lb(i) == i

\* procs with the buffer of request i set to nb and then the other locals
\* of request i set as in upd.
Step(i, nb, upd) ==
    LET ps == [procs EXCEPT ![Lb(i)].b = nb] IN
    [ps EXCEPT ![i] = [fld \in DOMAIN ps[i] |->
                          IF fld \in DOMAIN upd THEN upd[fld] ELSE ps[i][fld]]]

\* The locals of request i alone.
Local(i, upd) == Step(i, procs[Lb(i)].b, upd)

ServeInit ==
    /\ fs \in ServeDirs
    /\ registry = definedRuleOps
    /\ procs \in [Requests ->
                    { [pc |-> "start", rule |-> a.rule, limit |-> a.limit,
                       offset |-> a.offset, d |-> << >>, di |-> 0, fl |-> 0,
                       b |-> Nil, opened |-> {}, out |-> [op |-> "processDir"]] :
                      a \in ServeArgs }]
    /\ req = Nil
    /\ b = Nil
    /\ out = [op |-> "serve"]
    /\ rule = Nil
    /\ arg = EmptyString
    /\ ScanIdle
    /\ BufIdle

ServeRest == <<b, hist, fresh, out, pc, d, di, fl, rule, limit, offset, opened, seen,
               arg, req, fs, registry>>

\* os.ReadDir fails.
SrvReadDirFail(i) ==
    /\ procs[i].pc = "start"
    /\ ~fs.readable
    /\ procs' = Local(i, [pc |-> "done", out |-> ReturnErr(ErrReadDir)])
    /\ UNCHANGED ServeRest

\* os.ReadDir succeeds and the buffer is created.
SrvReadDirOk(i) ==
    /\ procs[i].pc = "start"
    /\ fs.readable
    /\ procs' = Step(i, NewLogBuffer(procs[i].limit + procs[i].offset),
                     [pc |-> "entries", di |-> 0,
                      d |-> [k \in 1..Len(fs.entries) |->
                               [name |-> fs.entries[k].name,
                                isDir |-> fs.entries[k].isDir]]])
    /\ UNCHANGED ServeRest

\* A directory or a file without the .log suffix: continue.
SrvSkipEntry(i) ==
    /\ procs[i].pc = "entries"
    /\ procs[i].di < Len(procs[i].d)
    /\ ~Eligible(procs[i].d[procs[i].di + 1])
    /\ procs' = Local(i, [di |-> procs[i].di + 1])
    /\ UNCHANGED ServeRest

\* os.Open fails: return nil, err; the deferred Close calls run.
SrvOpenFail(i) ==
    /\ procs[i].pc = "entries"
    /\ procs[i].di < Len(procs[i].d)
    /\ Eligible(procs[i].d[procs[i].di + 1])
    /\ ~fs.entries[procs[i].di + 1].openable
    /\ procs' = Local(i, [pc |-> "done", out |-> ReturnErr(ErrOpen), opened |-> {}])
    /\ UNCHANGED ServeRest

\* os.Open succeeds; defer f.Close(); a scanner is put on the file.
SrvOpenOk(i) ==
    /\ procs[i].pc = "entries"
    /\ procs[i].di < Len(procs[i].d)
    /\ Eligible(procs[i].d[procs[i].di + 1])
    /\ fs.entries[procs[i].di + 1].openable
    /\ procs' = Local(i, [pc |-> "lines", fl |-> 0,
                          opened |-> procs[i].opened \cup {procs[i].di + 1}])
    /\ UNCHANGED ServeRest

\* scanner.Scan() returns false: next directory entry.
SrvScanEnd(i) ==
    /\ procs[i].pc = "lines"
    /\ procs[i].fl >= Len(fs.entries[procs[i].di + 1].lines)
    /\ procs' = Local(i, [pc |-> "entries", di |-> procs[i].di + 1])
    /\ UNCHANGED ServeRest

\* One line of the file: pushed when there is no rule or the rule matches
\* it; a failing rule ends the call.
SrvScanLine(i) ==
    /\ procs[i].pc = "lines"
    /\ procs[i].fl < Len(fs.entries[procs[i].di + 1].lines)
    /\ LET l   == fs.entries[procs[i].di + 1].lines[procs[i].fl + 1]
           lb  == procs[Lb(i)].b
           res == IF procs[i].rule = Nil THEN [ret |-> TRUE, err |-> NoErr]
                  ELSE Run(procs[i].rule, registry, Str(l))
       IN  procs' =
             IF res.err # NoErr
             THEN Local(i, [pc |-> "done", opened |-> {}, fl |-> procs[i].fl + 1,
                            out |-> ReturnErr(Wrap(<<"processing rule on line", l>>,
                                                   res.err))])
             ELSE Step(i, IF res.ret THEN Push(lb, l) ELSE lb,
                       [fl |-> procs[i].fl + 1])
    /\ UNCHANGED ServeRest

\* After the loop: buf.Get(offset, limit), then the records newest first.
SrvFinish(i) ==
    /\ procs[i].pc = "entries"
    /\ procs[i].di >= Len(procs[i].d)
    /\ procs' = Local(i, [pc |-> "done", opened |-> {},
                          out |-> Page(procs[Lb(i)].b, procs[i].offset,
                                       procs[i].limit)])
    /\ UNCHANGED ServeRest

ServeNext ==
    \E i \in Requests :
        \/ SrvReadDirFail(i)
        \/ SrvReadDirOk(i)
        \/ SrvSkipEntry(i)
        \/ SrvOpenFail(i)
        \/ SrvOpenOk(i)
        \/ SrvScanEnd(i)
        \/ SrvScanLine(i)
        \/ SrvFinish(i)

SpecServe == ServeInit /\ [][ServeNext]_vars

\* C15: in every step of every interleaving the rule registry stays as it
\* is, a step that changes the buffer of a request changes nothing of any
\* other request, and a request that has returned holds the result of
\* processDir run alone on the same directory, rule, limit and offset.
C15_RequestsIsolated ==
    [][ /\ registry' = registry
        /\ \A i \in Requests :
              procs'[i].b # procs[i].b =>
                  /\ procs'[i].fl # procs[i].fl \/ procs'[i].pc # procs[i].pc
                  /\ \A j \in Requests \ {i} : procs'[j] = procs[j]
        /\ \A i \in Requests :
              procs'[i].pc = "done" =>
                  procs'[i].out = ProcessDirAlone(fs, procs[i].rule,
                                                  procs[i].limit, procs[i].offset)
      ]_vars

C15_Witness ==
    /\ procs[1].pc = "done"
    /\ procs[1].out.err = NoErr
    /\ Len(procs[1].out.ret) = 2
    /\ procs[2].pc = "lines"
    /\ procs[2].b.size = 1
    /\ procs[2].rule # procs[1].rule
    /\ procs[2].rule # Nil

====
